---- MODULE Spec2Model ----
(***************************************************************************)
(* Model of the webhook handler of server.go: telegramHandler and the four *)
(* functions it calls (fetchArticle, getHashtags, postToTwitter,           *)
(* sendTelegramNotification).                                              *)
(*                                                                         *)
(* Go strings are sequences of characters (one-character strings; a        *)
(* non-ASCII character and the backquote are written by their code point, *)
(* "U+274C", "U+0060").  A Go error is <<>> (nil) or <<text>>, where text  *)
(* is what Error() returns; a pointer is <<>> (nil) or <<value>>.          *)
(***************************************************************************)
EXTENDS Integers, Sequences, FiniteSets, TLC

\* ------------------------------------------------------------------------
\* Bounds
\* ------------------------------------------------------------------------

\* Number of handler invocations (goroutines of net/http) the model holds.
NumRuns == 2

\* ------------------------------------------------------------------------
\* String literals of server.go
\* ------------------------------------------------------------------------

HttpPrefix ==
    <<"h", "t", "t", "p", ":", "/", "/">>

HttpsPrefix ==
    <<"h", "t", "t", "p", "s", ":", "/", "/">>

FetchFailFmt ==
    <<"U+274C", " ", "F", "a", "i", "l", "e", "d", " ", "t", "o", " ", "f", "e", "t", "c", "h", " ", "a", "r", "t", "i", "c", "l", "e", " ", "w", "i", "t", "h", " ", "I", "D", " ">>

HashtagsFailFmt ==
    <<"U+274C", " ", "F", "a", "i", "l", "e", "d", " ", "t", "o", " ", "g", "e", "t", " ", "h", "a", "s", "h", "t", "a", "g", "s", " ", "f", "o", "r", " ", "a", "r", "t", "i", "c", "l", "e", " ", "w", "i", "t", "h", " ", "I", "D", " ">>

TwitterFailFmt ==
    <<"U+274C", " ", "F", "a", "i", "l", "e", "d", " ", "t", "o", " ", "p", "o", "s", "t", " ", "t", "o", " ", "T", "w", "i", "t", "t", "e", "r", " ", "f", "o", "r", " ", "a", "r", "t", "i", "c", "l", "e", " ", "w", "i", "t", "h", " ", "I", "D", " ">>

ReasonFmt ==
    <<".", " ", "R", "e", "a", "s", "o", "n", ":", " ">>

SuccessFmt ==
    <<"U+2705", " ", "S", "u", "c", "c", "e", "s", "s", "f", "u", "l", "l", "y", " ", "p", "o", "s", "t", "e", "d", " ", "a", "r", "t", "i", "c", "l", "e", " ", "w", "i", "t", "h", " ", "I", "D", ":", " ", "U+0060">>

SuccessFmtEnd ==
    <<"U+0060">>

MarkdownV2 ==
    <<"M", "a", "r", "k", "d", "o", "w", "n", "V", "2">>

TelegramApiPrefix ==
    <<"h", "t", "t", "p", "s", ":", "/", "/", "a", "p", "i", ".", "t", "e", "l", "e", "g", "r", "a", "m", ".", "o", "r", "g", "/", "b", "o", "t">>

TelegramApiSuffix ==
    <<"/", "s", "e", "n", "d", "M", "e", "s", "s", "a", "g", "e">>

NotionUrlFmt ==
    <<"h", "t", "t", "p", "s", ":", "/", "/", "v", "i", "e", "w", "o", "n", ".", "n", "e", "w", "s", "/", "n", "o", "t", "i", "o", "n", ".", "p", "h", "p", "?", "i", "d", "=">>

FetchErrFmt ==
    <<"c", "o", "u", "l", "d", " ", "n", "o", "t", " ", "f", "e", "t", "c", "h", " ", "a", "r", "t", "i", "c", "l", "e", ":", " ">>

FetchStatusFmt ==
    <<"u", "n", "e", "x", "p", "e", "c", "t", "e", "d", " ", "s", "t", "a", "t", "u", "s", " ", "c", "o", "d", "e", ":", " ">>

FetchDecodeFmt ==
    <<"c", "o", "u", "l", "d", " ", "n", "o", "t", " ", "d", "e", "c", "o", "d", "e", " ", "a", "r", "t", "i", "c", "l", "e", " ", "d", "a", "t", "a", ":", " ">>

TwitterCredsErr ==
    <<"t", "w", "i", "t", "t", "e", "r", " ", "a", "p", "i", " ", "c", "r", "e", "d", "e", "n", "t", "i", "a", "l", "s", " ", "n", "o", "t", " ", "s", "e", "t">>

ArticleUrlFmt ==
    <<"h", "t", "t", "p", "s", ":", "/", "/", "v", "i", "e", "w", "o", "n", ".", "n", "e", "w", "s", "/", "a", "r", "t", "i", "c", "l", "e", ".", "h", "t", "m", "l", "?", "i", "d", "=">>

PayloadFmt ==
    <<"{", "\"", "t", "e", "x", "t", "\"", ":", " ">>

PayloadFmtEnd ==
    <<"}">>

TweetURL ==
    <<"h", "t", "t", "p", "s", ":", "/", "/", "a", "p", "i", ".", "t", "w", "i", "t", "t", "e", "r", ".", "c", "o", "m", "/", "2", "/", "t", "w", "e", "e", "t", "s">>

TweetSendFmt ==
    <<"f", "a", "i", "l", "e", "d", " ", "t", "o", " ", "s", "e", "n", "d", " ", "r", "e", "q", "u", "e", "s", "t", ":", " ">>

TweetReadFmt ==
    <<"f", "a", "i", "l", "e", "d", " ", "t", "o", " ", "r", "e", "a", "d", " ", "r", "e", "s", "p", "o", "n", "s", "e", " ", "b", "o", "d", "y", ":", " ">>

TweetStatusFmt ==
    <<"r", "e", "c", "e", "i", "v", "e", "d", " ", "n", "o", "n", "-", "2", "0", "1", " ", "s", "t", "a", "t", "u", "s", " ", "c", "o", "d", "e", ":", " ">>

TweetResponseFmt ==
    <<"\n", "R", "e", "s", "p", "o", "n", "s", "e", ":", " ">>

OpenRouterKeyErr ==
    <<"O", "P", "E", "N", "R", "O", "U", "T", "E", "R", "_", "A", "P", "I", "_", "K", "E", "Y", " ", "n", "o", "t", " ", "s", "e", "t">>

PromptFmt ==
    <<"B", "a", "s", "e", "d", " ", "o", "n", " ", "t", "h", "e", " ", "f", "o", "l", "l", "o", "w", "i", "n", "g", " ", "n", "e", "w", "s", " ", "a", "r", "t", "i", "c", "l", "e", " ", "t", "i", "t", "l", "e", " ", "a", "n", "d", " ", "d", "e", "s", "c", "r", "i", "p", "t", "i", "o", "n", ",", " ", "g", "e", "n", "e", "r", "a", "t", "e", " ", "3", "-", "5", " ", "r", "e", "l", "e", "v", "a", "n", "t", " ", "h", "a", "s", "h", "t", "a", "g", "s", " ", "f", "o", "r", " ", "a", " ", "t", "w", "e", "e", "t", ".", " ", "D", "o", " ", "n", "o", "t", " ", "i", "n", "c", "l", "u", "d", "e", " ", "a", "n", "y", " ", "o", "t", "h", "e", "r", " ", "t", "e", "x", "t", ",", " ", "j", "u", "s", "t", " ", "t", "h", "e", " ", "h", "a", "s", "h", "t", "a", "g", "s", " ", "s", "t", "a", "r", "t", "i", "n", "g", " ", "w", "i", "t", "h", " ", "#", ".", "\n", "\n", "T", "i", "t", "l", "e", ":", " ">>

PromptDescFmt ==
    <<"\n", "D", "e", "s", "c", "r", "i", "p", "t", "i", "o", "n", ":", " ">>

OpenRouterModel ==
    <<"d", "e", "e", "p", "s", "e", "e", "k", "/", "d", "e", "e", "p", "s", "e", "e", "k", "-", "r", "1", ":", "f", "r", "e", "e">>

OpenRouterURL ==
    <<"h", "t", "t", "p", "s", ":", "/", "/", "o", "p", "e", "n", "r", "o", "u", "t", "e", "r", ".", "a", "i", "/", "a", "p", "i", "/", "v", "1", "/", "c", "h", "a", "t", "/", "c", "o", "m", "p", "l", "e", "t", "i", "o", "n", "s">>

BearerPrefix ==
    <<"B", "e", "a", "r", "e", "r", " ">>

OpenRouterSendFmt ==
    <<"f", "a", "i", "l", "e", "d", " ", "t", "o", " ", "s", "e", "n", "d", " ", "r", "e", "q", "u", "e", "s", "t", " ", "t", "o", " ", "O", "p", "e", "n", "R", "o", "u", "t", "e", "r", ":", " ">>

OpenRouterReadFmt ==
    <<"f", "a", "i", "l", "e", "d", " ", "t", "o", " ", "r", "e", "a", "d", " ", "r", "e", "s", "p", "o", "n", "s", "e", " ", "b", "o", "d", "y", " ", "f", "r", "o", "m", " ", "O", "p", "e", "n", "R", "o", "u", "t", "e", "r", ":", " ">>

OpenRouterStatusFmt ==
    <<"r", "e", "c", "e", "i", "v", "e", "d", " ", "n", "o", "n", "-", "2", "0", "0", " ", "s", "t", "a", "t", "u", "s", " ", "f", "r", "o", "m", " ", "O", "p", "e", "n", "R", "o", "u", "t", "e", "r", ":", " ">>

OpenRouterUnmarshalFmt ==
    <<"f", "a", "i", "l", "e", "d", " ", "t", "o", " ", "u", "n", "m", "a", "r", "s", "h", "a", "l", " ", "O", "p", "e", "n", "R", "o", "u", "t", "e", "r", " ", "r", "e", "s", "p", "o", "n", "s", "e", ":", " ">>

OpenRouterEmptyErr ==
    <<"n", "o", " ", "c", "o", "n", "t", "e", "n", "t", " ", "f", "o", "u", "n", "d", " ", "i", "n", " ", "O", "p", "e", "n", "R", "o", "u", "t", "e", "r", " ", "r", "e", "s", "p", "o", "n", "s", "e">>

\* ------------------------------------------------------------------------
\* Status codes of net/http used by server.go
\* ------------------------------------------------------------------------

StatusOK == 200

StatusCreated == 201

StatusBadRequest == 400

\* ------------------------------------------------------------------------
\* Library functions, modelled by what they compute
\* ------------------------------------------------------------------------

\* strings.HasPrefix(s, prefix)
HasPrefix(s, prefix) ==
    /\ Len(s) >= Len(prefix)
    /\ SubSeq(s, 1, Len(prefix)) = prefix

\* strings.Contains(s, substr); used by the properties only
Contains(s, substr) ==
    \E i \in 1..(Len(s) + 1) :
        /\ i + Len(substr) - 1 <= Len(s)
        /\ SubSeq(s, i, i + Len(substr) - 1) = substr

DigitChar(d) ==
    CASE d = 0 -> "0" [] d = 1 -> "1" [] d = 2 -> "2" [] d = 3 -> "3"
      [] d = 4 -> "4" [] d = 5 -> "5" [] d = 6 -> "6" [] d = 7 -> "7"
      [] d = 8 -> "8" [] d = 9 -> "9"

RECURSIVE Itoa(_)
\* the %d verb of fmt on a non-negative int
Itoa(n) ==
    IF n < 10 THEN <<DigitChar(n)>>
    ELSE Itoa(n \div 10) \o <<DigitChar(n % 10)>>

\* strconv quoting of one character, as the %q verb applies it
QuoteChar(c) ==
    CASE c = "\n" -> <<"\\", "n">>
      [] c = "\"" -> <<"\\", "\"">>
      [] c = "\\" -> <<"\\", "\\">>
      [] OTHER -> <<c>>

RECURSIVE QuoteBody(_)
QuoteBody(s) ==
    IF s = <<>> THEN <<>> ELSE QuoteChar(Head(s)) \o QuoteBody(Tail(s))

\* the %q verb of fmt on a string: a double-quoted Go string literal
Quote(s) == <<"\"">> \o QuoteBody(s) \o <<"\"">>

\* ------------------------------------------------------------------------
\* Events a run leaves behind, in program order
\* ------------------------------------------------------------------------

\* fn was called with args
Call(fn, args) == [op |-> "call", fn |-> fn, args |-> args]

\* fn sent an outbound HTTP request
Http(fn, method, url, body) ==
    [op |-> "http", fn |-> fn, args |-> <<method, url, body>>]

\* fn got the answer resp to its request
Response(fn, resp) == [op |-> "response", fn |-> fn, args |-> <<resp>>]

\* fn returned the values in results
Ret(fn, results) == [op |-> "return", fn |-> fn, args |-> results]

\* the handler wrote a status code to the http.ResponseWriter
Status(code) == [op |-> "status", fn |-> "telegramHandler", args |-> <<code>>]

\* ------------------------------------------------------------------------
\* Inputs: request bodies, environments and the answers of the four services
\* ------------------------------------------------------------------------

Runs == 1..NumRuns

TextId == <<"a", "b", "c">>

TextHttps == <<"h", "t", "t", "p", "s", ":", "/", "/", "x">>

TextHttp == <<"h", "t", "t", "p", ":", "/", "/", "x">>

\* texts the validation lets through although they look like URLs
TextUpper == <<"H", "t", "t", "p", ":", "/", "/", "x">>

TextLedBySpace == <<" ", "h", "t", "t", "p", "s", ":", "/", "/", "x">>

TextFtp == <<"f", "t", "p", ":", "/", "/", "x">>

TextOneSlash == <<"h", "t", "t", "p", ":", "/", "x">>

TextSpace == <<" ">>

\* A request body <<valid, message>>: not JSON for a TelegramUpdate
\* (valid = FALSE), or JSON whose message.text is absent (message = <<>>)
\* or present (message = <<text>>).
MalformedBody == <<FALSE, <<>>>>

JsonBody(message) == <<TRUE, message>>

BodyValid(body) == body[1]

BodyMessage(body) == body[2]

\* The inputs of a specification are listed as sequences; an action draws
\* one of the elements.
Bodies ==
    << MalformedBody, JsonBody(<<>>), JsonBody(<<TextId>>),
       JsonBody(<<TextHttps>>), JsonBody(<<TextHttp>>),
       JsonBody(<<TextUpper>>), JsonBody(<<TextLedBySpace>>),
       JsonBody(<<TextFtp>>), JsonBody(<<TextOneSlash>>),
       JsonBody(<<TextSpace>>) >>

BodiesNarrow ==
    << MalformedBody, JsonBody(<<TextId>>), JsonBody(<<TextHttps>>) >>

\* every variable set
FullEnv ==
    [TELEGRAM_BOT_TOKEN |-> <<"t", "o", "k">>,
     TELEGRAM_CHAT_ID |-> <<"-", "1", "0", "0">>,
     OPENROUTER_API_KEY |-> <<"k">>,
     TWITTER_CONSUMER_KEY |-> <<"k">>,
     TWITTER_CONSUMER_SECRET |-> <<"k">>,
     TWITTER_ACCESS_TOKEN |-> <<"k">>,
     TWITTER_ACCESS_SECRET |-> <<"k">>]

\* os.Getenv yields "" for an unset variable
Unset(e, n) == [e EXCEPT ![n] = <<>>]

Envs == {FullEnv} \cup {Unset(FullEnv, n) : n \in DOMAIN FullEnv}

EnvsNarrow ==
    { FullEnv, Unset(FullEnv, "TELEGRAM_BOT_TOKEN"),
      Unset(FullEnv, "TELEGRAM_CHAT_ID") }

\* The answer to an outbound request, <<err, status, readErr, body, json>>:
\* a transport error (err = <<text>>), or a response with a status, a body
\* that may fail to be read (readErr = <<text>>), the text of the body, and
\* the JSON value of the body (json = <<>> when the body does not decode
\* into the expected type, else <<value>>).
NetFail(text) == <<<<text>>, 0, <<>>, <<>>, <<>>>>

ReadFail(status, text) == <<<<>>, status, <<text>>, <<>>, <<>>>>

Resp(status, body, json) == <<<<>>, status, <<>>, body, json>>

RespErr(resp) == resp[1]

RespStatus(resp) == resp[2]

RespReadErr(resp) == resp[3]

RespBody(resp) == resp[4]

RespJson(resp) == resp[5]

NetErrText == <<"i", "/", "o", " ", "t", "i", "m", "e", "o", "u", "t">>

ReadErrText == <<"u", "n", "e", "x", "p", "e", "c", "t", "e", "d", " ", "E", "O", "F">>

\* the text of the error encoding/json returns for a body it cannot decode
JsonErrText ==
    <<"u", "n", "e", "x", "p", "e", "c", "t", "e", "d", " ", "e", "n", "d", " ", "o", "f", " ", "J", "S", "O", "N", " ", "i", "n", "p", "u", "t">>

BodyText == <<"{", "}">>

\* the JSON of an article, <<title, description, image>>
Article1 == <<<<"T">>, <<"D">>, <<"i", ".", "p", "n", "g">>>>

Article2 == <<<<"N", "\"", "1">>, <<>>, <<>>>>

Hashtags1 == <<"#", "a", " ", "#", "b">>

Hashtags2 == <<"#", "c", "\n", "#", "d">>

ArticleResponses ==
    << NetFail(NetErrText), ReadFail(StatusOK, ReadErrText),
      Resp(404, BodyText, <<>>), Resp(500, BodyText, <<>>),
      Resp(StatusOK, BodyText, <<>>), Resp(StatusOK, BodyText, <<Article1>>),
      Resp(StatusOK, BodyText, <<Article2>>) >>

ArticleResponsesNarrow ==
    << Resp(404, BodyText, <<>>), Resp(StatusOK, BodyText, <<Article1>>) >>

OpenRouterResponses ==
    << NetFail(NetErrText), ReadFail(StatusOK, ReadErrText),
      Resp(429, <<"r", "a", "t", "e", " ", "l", "i", "m", "i", "t", "e", "d">>, <<>>),
      Resp(StatusOK, BodyText, <<>>),
      Resp(StatusOK, BodyText, <<<<>>>>),
      Resp(StatusOK, BodyText, <<<<Hashtags1>>>>),
      Resp(StatusOK, BodyText, <<<<Hashtags2, Hashtags1>>>>) >>

OpenRouterResponsesNarrow ==
    << NetFail(NetErrText),
      Resp(StatusOK, BodyText, <<<<Hashtags1>>>>) >>

TwitterResponses ==
    << NetFail(NetErrText), ReadFail(StatusCreated, ReadErrText),
      Resp(StatusCreated, BodyText, <<>>), Resp(StatusOK, BodyText, <<>>),
      Resp(403, <<"F", "o", "r", "b", "i", "d", "d", "e", "n">>, <<>>) >>

TwitterResponsesNarrow ==
    << Resp(StatusCreated, BodyText, <<>>), Resp(StatusOK, BodyText, <<>>) >>

TelegramResponses ==
    << NetFail(NetErrText), Resp(StatusOK, BodyText, <<>>),
      Resp(StatusBadRequest, BodyText, <<>>) >>

\* What a specification lets arrive: the request bodies and the answers of
\* the article, completion, post and notification services.
Wide ==
    <<Bodies, ArticleResponses, OpenRouterResponses, TwitterResponses,
      TelegramResponses>>

Narrow ==
    <<BodiesNarrow, ArticleResponsesNarrow, OpenRouterResponsesNarrow,
      TwitterResponsesNarrow, TelegramResponses>>

BodiesOf(I) == I[1]

ArticleAnswers(I) == I[2]

OpenRouterAnswers(I) == I[3]

TwitterAnswers(I) == I[4]

TelegramAnswers(I) == I[5]

\* ------------------------------------------------------------------------
\* The functions of server.go
\* ------------------------------------------------------------------------

\* DecodeUpdate with the decoding error dropped
DecodeUpdateErrorIgnored(body) ==
    [ok |-> TRUE,
     Text |-> IF BodyValid(body) /\ BodyMessage(body) # <<>>
              THEN BodyMessage(body)[1]
              ELSE <<>>]

\* json.NewDecoder(r.Body).Decode(&update): the zero value of Message.Text
\* is "" when the body carries no message text
DecodeUpdate(body) ==
    [ok |-> BodyValid(body),
     Text |-> IF BodyValid(body) /\ BodyMessage(body) # <<>>
              THEN BodyMessage(body)[1]
              ELSE <<>>]

\* IsURL with the http:// test forgotten
IsURLHttpsOnly(text) == HasPrefix(text, HttpsPrefix)

\* IsURL taking any text with a scheme separator for a URL
IsURLAnyScheme(text) == Contains(text, <<":", "/", "/">>)

\* the input validation of telegramHandler
IsURL(text) == HasPrefix(text, HttpPrefix) \/ HasPrefix(text, HttpsPrefix)

\* FetchFailMsg without the error
FetchFailMsgNoReason(id, e) == FetchFailFmt \o id

\* the three failure messages and the success message of telegramHandler
FetchFailMsg(id, e) == FetchFailFmt \o id \o ReasonFmt \o e

HashtagsFailMsg(id, e) == HashtagsFailFmt \o id \o ReasonFmt \o e

TwitterFailMsg(id, e) == TwitterFailFmt \o id \o ReasonFmt \o e

SuccessMsg(id) == SuccessFmt \o id \o SuccessFmtEnd

\* the parse mode of the failure notifications and of the success one
PlainText == <<>>

\* the success notification sent as plain text
SuccessParseModeNone == <<>>

SuccessParseMode == MarkdownV2

\* fetchArticle(id), given the answer resp to its GET
fetchArticle(id, resp) ==
    LET url == NotionUrlFmt \o id
        events ==
            <<Http("fetchArticle", "GET", url, <<>>),
              Response("fetchArticle", resp)>>
    IN  IF RespErr(resp) # <<>>
        THEN [events |-> events, article |-> <<>>,
              err |-> <<FetchErrFmt \o RespErr(resp)[1]>>]
        ELSE IF RespStatus(resp) # StatusOK
        THEN [events |-> events, article |-> <<>>,
              err |-> <<FetchStatusFmt \o Itoa(RespStatus(resp))>>]
        ELSE IF RespReadErr(resp) # <<>> \/ RespJson(resp) = <<>>
        THEN [events |-> events, article |-> <<>>,
              err |-> <<FetchDecodeFmt \o
                        (IF RespReadErr(resp) # <<>> THEN RespReadErr(resp)[1]
                         ELSE JsonErrText)>>]
        ELSE [events |-> events,
              article |-> <<[Title |-> RespJson(resp)[1][1],
                             Description |-> RespJson(resp)[1][2],
                             Image |-> RespJson(resp)[1][3]]>>,
              err |-> <<>>]

\* the prompt getHashtags builds
Prompt(title, description) ==
    PromptFmt \o title \o PromptDescFmt \o description

\* getHashtags(title, description) under environment e, given the answer
\* resp to its POST.  json.Marshal of the request struct and http.NewRequest
\* with a constant method and URL cannot fail.
getHashtags(e, title, description, resp) ==
    LET apiKey == e["OPENROUTER_API_KEY"]
        requestBody ==
            [model |-> OpenRouterModel,
             messages |-> <<[role |-> "user",
                             content |-> Prompt(title, description)]>>]
        events ==
            <<Http("getHashtags", "POST", OpenRouterURL,
                   [Authorization |-> BearerPrefix \o apiKey,
                    json |-> requestBody]),
              Response("getHashtags", resp)>>
    IN  IF apiKey = <<>>
        THEN [events |-> <<>>, hashtags |-> <<>>, err |-> <<OpenRouterKeyErr>>]
        ELSE IF RespErr(resp) # <<>>
        THEN [events |-> events, hashtags |-> <<>>,
              err |-> <<OpenRouterSendFmt \o RespErr(resp)[1]>>]
        ELSE IF RespReadErr(resp) # <<>>
        THEN [events |-> events, hashtags |-> <<>>,
              err |-> <<OpenRouterReadFmt \o RespReadErr(resp)[1]>>]
        ELSE IF RespStatus(resp) # StatusOK
        THEN [events |-> events, hashtags |-> <<>>,
              err |-> <<OpenRouterStatusFmt \o RespBody(resp)>>]
        ELSE IF RespJson(resp) = <<>>
        THEN [events |-> events, hashtags |-> <<>>,
              err |-> <<OpenRouterUnmarshalFmt \o JsonErrText>>]
        ELSE IF Len(RespJson(resp)[1]) > 0
        THEN [events |-> events, hashtags |-> RespJson(resp)[1][1],
              err |-> <<>>]
        ELSE [events |-> events, hashtags |-> <<>>,
              err |-> <<OpenRouterEmptyErr>>]

\* TweetText with the hashtags put before the title
TweetTextHashtagsFirst(title, hashtags, articleURL) ==
    hashtags \o <<"\n">> \o title \o <<"\n", "\n">> \o articleURL

\* the text of the post
TweetText(title, hashtags, articleURL) ==
    title \o <<"\n">> \o hashtags \o <<"\n", "\n">> \o articleURL

\* TweetCreated taking 200 for success as well
TweetCreatedOrOK(status) == status = StatusCreated \/ status = StatusOK

\* the status postToTwitter takes as success
TweetCreated(status) == status = StatusCreated

\* postToTwitter with the access secret left out of the credential check
postToTwitterSecretUnchecked(e, article, messageID, hashtags, resp) ==
    LET consumerKey == e["TWITTER_CONSUMER_KEY"]
        consumerSecret == e["TWITTER_CONSUMER_SECRET"]
        accessToken == e["TWITTER_ACCESS_TOKEN"]
        accessSecret == e["TWITTER_ACCESS_SECRET"]
        articleURL == ArticleUrlFmt \o messageID
        tweetText == TweetText(article.Title, hashtags, articleURL)
        payload == PayloadFmt \o Quote(tweetText) \o PayloadFmtEnd
        events ==
            <<Http("postToTwitter", "POST", TweetURL,
                   [text |-> tweetText, payload |-> payload]),
              Response("postToTwitter", resp)>>
    IN  IF \/ consumerKey = <<>> \/ consumerSecret = <<>>
           \/ accessToken = <<>>
        THEN [events |-> <<>>, err |-> <<TwitterCredsErr>>]
        ELSE IF RespErr(resp) # <<>>
        THEN [events |-> events,
              err |-> <<TweetSendFmt \o RespErr(resp)[1]>>]
        ELSE IF RespReadErr(resp) # <<>>
        THEN [events |-> events,
              err |-> <<TweetReadFmt \o RespReadErr(resp)[1]>>]
        ELSE IF ~TweetCreated(RespStatus(resp))
        THEN [events |-> events,
              err |-> <<TweetStatusFmt \o Itoa(RespStatus(resp))
                        \o TweetResponseFmt \o RespBody(resp)>>]
        ELSE [events |-> events, err |-> <<>>]

\* postToTwitter(article, messageID, hashtags) under environment e, given
\* the answer resp to its POST.  article is the value the pointer refers
\* to; the OAuth1 signature of the request is not modelled.
postToTwitter(e, article, messageID, hashtags, resp) ==
    LET consumerKey == e["TWITTER_CONSUMER_KEY"]
        consumerSecret == e["TWITTER_CONSUMER_SECRET"]
        accessToken == e["TWITTER_ACCESS_TOKEN"]
        accessSecret == e["TWITTER_ACCESS_SECRET"]
        articleURL == ArticleUrlFmt \o messageID
        tweetText == TweetText(article.Title, hashtags, articleURL)
        payload == PayloadFmt \o Quote(tweetText) \o PayloadFmtEnd
        events ==
            <<Http("postToTwitter", "POST", TweetURL,
                   [text |-> tweetText, payload |-> payload]),
              Response("postToTwitter", resp)>>
    IN  IF \/ consumerKey = <<>> \/ consumerSecret = <<>>
           \/ accessToken = <<>> \/ accessSecret = <<>>
        THEN [events |-> <<>>, err |-> <<TwitterCredsErr>>]
        ELSE IF RespErr(resp) # <<>>
        THEN [events |-> events,
              err |-> <<TweetSendFmt \o RespErr(resp)[1]>>]
        ELSE IF RespReadErr(resp) # <<>>
        THEN [events |-> events,
              err |-> <<TweetReadFmt \o RespReadErr(resp)[1]>>]
        ELSE IF ~TweetCreated(RespStatus(resp))
        THEN [events |-> events,
              err |-> <<TweetStatusFmt \o Itoa(RespStatus(resp))
                        \o TweetResponseFmt \o RespBody(resp)>>]
        ELSE [events |-> events, err |-> <<>>]

\* sendTelegramNotification(message, parseMode) under environment e, given
\* the answer resp to its POST.  It returns nothing; log is the line it
\* writes to the log.  json.Marshal of a map[string]string cannot fail.
sendTelegramNotification(e, message, parseMode, resp) ==
    LET botToken == e["TELEGRAM_BOT_TOKEN"]
        chatID == e["TELEGRAM_CHAT_ID"]
        apiURL == TelegramApiPrefix \o botToken \o TelegramApiSuffix
        requestData ==
            IF parseMode # <<>>
            THEN [chat_id |-> chatID, text |-> message,
                  parse_mode |-> parseMode]
            ELSE [chat_id |-> chatID, text |-> message]
        events ==
            <<Http("sendTelegramNotification", "POST", apiURL, requestData),
              Response("sendTelegramNotification", resp)>>
    IN  IF botToken = <<>> \/ chatID = <<>>
        THEN [events |-> <<>>, log |-> "not set"]
        ELSE IF RespErr(resp) # <<>>
        THEN [events |-> events, log |-> "failed to send"]
        ELSE IF RespStatus(resp) # StatusOK
        THEN [events |-> events, log |-> "non-200 status"]
        ELSE [events |-> events, log |-> "sent"]

\* ------------------------------------------------------------------------
\* State
\* ------------------------------------------------------------------------

VARIABLES
    pc,         \* pc[r]: where run r of telegramHandler stands
    request,    \* request[r]: <<>> or <<the body of the request>>
    text,       \* text[r]: update.Message.Text
    article,    \* article[r]: <<>> (nil) or <<the Article fetched>>
    hashtags,   \* hashtags[r]: the string getHashtags returned
    errMsg,     \* errMsg[r]: the failure message the handler formatted
    trace,      \* trace[r]: calls, outbound requests, returns, status writes
    notifyLog,  \* notifyLog[r]: the log lines of sendTelegramNotification
    env         \* env[r]: the environment os.Getenv reads in run r

vars ==
    <<pc, request, text, article, hashtags, errMsg, trace, notifyLog, env>>

InitRuns ==
    /\ pc = [r \in Runs |-> "recv"]
    /\ request = [r \in Runs |-> <<>>]
    /\ text = [r \in Runs |-> <<>>]
    /\ article = [r \in Runs |-> <<>>]
    /\ hashtags = [r \in Runs |-> <<>>]
    /\ errMsg = [r \in Runs |-> <<>>]
    /\ trace = [r \in Runs |-> <<>>]
    /\ notifyLog = [r \in Runs |-> <<>>]

\* One process: every run reads the same environment, loaded before the
\* server starts and never changed.
Init ==
    /\ InitRuns
    /\ \E e \in Envs : env = [r \in Runs |-> e]

\* ------------------------------------------------------------------------
\* telegramHandler, one action per step between two blocking calls
\* ------------------------------------------------------------------------

\* lines 56-64: decode the body; 400 and return when it does not decode
HandlerDecode(r, I) ==
    /\ pc[r] = "recv"
    /\ \E i \in 1..Len(BodiesOf(I)) :
         LET body == BodiesOf(I)[i]
             update == DecodeUpdate(body)
         IN  /\ request' = [request EXCEPT ![r] = <<body>>]
             /\ IF ~update.ok
                THEN /\ trace' = [trace EXCEPT
                                    ![r] = @ \o <<Status(StatusBadRequest)>>]
                     /\ pc' = [pc EXCEPT ![r] = "done"]
                     /\ UNCHANGED text
                ELSE /\ text' = [text EXCEPT ![r] = update.Text]
                     /\ pc' = [pc EXCEPT ![r] = "validate"]
                     /\ UNCHANGED trace
    /\ UNCHANGED <<article, hashtags, errMsg, notifyLog, env>>

\* HandlerValidate dropping a text another run has already posted
HandlerValidateDeduplicated(r) ==
    /\ pc[r] = "validate"
    /\ IF \/ IsURL(text[r])
          \/ \E q \in Runs :
                /\ q # r
                /\ pc[q] = "done"
                /\ text[q] = text[r]
                /\ hashtags[q] # <<>>
                /\ errMsg[q] = <<>>
       THEN /\ trace' = [trace EXCEPT ![r] = @ \o <<Status(StatusOK)>>]
            /\ pc' = [pc EXCEPT ![r] = "done"]
       ELSE /\ pc' = [pc EXCEPT ![r] = "fetch"]
            /\ UNCHANGED trace
    /\ UNCHANGED <<request, text, article, hashtags, errMsg, notifyLog, env>>

\* lines 66-71: a URL is acknowledged with 200 and dropped
HandlerValidate(r) ==
    /\ pc[r] = "validate"
    /\ IF IsURL(text[r])
       THEN /\ trace' = [trace EXCEPT ![r] = @ \o <<Status(StatusOK)>>]
            /\ pc' = [pc EXCEPT ![r] = "done"]
       ELSE /\ pc' = [pc EXCEPT ![r] = "fetch"]
            /\ UNCHANGED trace
    /\ UNCHANGED <<request, text, article, hashtags, errMsg, notifyLog, env>>

\* HandlerFetch taking the article from a run that has fetched the same
\* identifier, as a cache shared by the runs would
HandlerFetchCached(r, I) ==
    /\ pc[r] = "fetch"
    /\ IF \E q \in Runs : q # r /\ text[q] = text[r] /\ article[q] # <<>>
       THEN /\ article' =
                 [article EXCEPT
                    ![r] = article[CHOOSE q \in Runs :
                                      /\ q # r
                                      /\ text[q] = text[r]
                                      /\ article[q] # <<>>]]
            /\ pc' = [pc EXCEPT ![r] = "hashtags"]
            /\ UNCHANGED <<trace, errMsg>>
       ELSE \E i \in 1..Len(ArticleAnswers(I)) :
              LET resp == ArticleAnswers(I)[i]
                  res == fetchArticle(text[r], resp)
              IN  /\ trace' =
                       [trace EXCEPT
                          ![r] = @ \o <<Call("fetchArticle", <<text[r]>>)>>
                                   \o res.events
                                   \o <<Ret("fetchArticle",
                                            <<res.article, res.err>>)>>]
                  /\ article' = [article EXCEPT ![r] = res.article]
                  /\ IF res.err # <<>>
                     THEN /\ errMsg' =
                               [errMsg EXCEPT
                                  ![r] = FetchFailMsg(text[r], res.err[1])]
                          /\ pc' = [pc EXCEPT ![r] = "notifyErr"]
                     ELSE /\ pc' = [pc EXCEPT ![r] = "hashtags"]
                          /\ UNCHANGED errMsg
    /\ UNCHANGED <<request, text, hashtags, notifyLog, env>>

\* lines 74-84: fetchArticle(update.Message.Text) and the test of its error
HandlerFetch(r, I) ==
    /\ pc[r] = "fetch"
    /\ \E i \in 1..Len(ArticleAnswers(I)) :
         LET resp == ArticleAnswers(I)[i]
             res == fetchArticle(text[r], resp)
         IN  /\ trace' = [trace EXCEPT
                            ![r] = @ \o <<Call("fetchArticle", <<text[r]>>)>>
                                     \o res.events
                                     \o <<Ret("fetchArticle",
                                              <<res.article, res.err>>)>>]
             /\ article' = [article EXCEPT ![r] = res.article]
             /\ IF res.err # <<>>
                THEN /\ errMsg' = [errMsg EXCEPT
                                     ![r] = FetchFailMsg(text[r], res.err[1])]
                     /\ pc' = [pc EXCEPT ![r] = "notifyErr"]
                ELSE /\ pc' = [pc EXCEPT ![r] = "hashtags"]
                     /\ UNCHANGED errMsg
    /\ UNCHANGED <<request, text, hashtags, notifyLog, env>>

\* HandlerHashtags passing the description for the title and the title for
\* the description
HandlerHashtagsSwapped(r, I) ==
    /\ pc[r] = "hashtags"
    /\ \E i \in 1..Len(OpenRouterAnswers(I)) :
         LET resp == OpenRouterAnswers(I)[i]
             a == article[r][1]
             res == getHashtags(env[r], a.Description, a.Title, resp)
         IN  /\ trace' = [trace EXCEPT
                            ![r] = @ \o <<Call("getHashtags",
                                               <<a.Description, a.Title>>)>>
                                     \o res.events
                                     \o <<Ret("getHashtags",
                                              <<res.hashtags, res.err>>)>>]
             /\ hashtags' = [hashtags EXCEPT ![r] = res.hashtags]
             /\ IF res.err # <<>>
                THEN /\ errMsg' =
                          [errMsg EXCEPT
                             ![r] = HashtagsFailMsg(text[r], res.err[1])]
                     /\ pc' = [pc EXCEPT ![r] = "notifyErr"]
                ELSE /\ pc' = [pc EXCEPT ![r] = "post"]
                     /\ UNCHANGED errMsg
    /\ UNCHANGED <<request, text, article, notifyLog, env>>

\* HandlerHashtags carrying on to the post after an error of getHashtags
HandlerHashtagsErrorIgnored(r, I) ==
    /\ pc[r] = "hashtags"
    /\ \E i \in 1..Len(OpenRouterAnswers(I)) :
         LET resp == OpenRouterAnswers(I)[i]
             a == article[r][1]
             res == getHashtags(env[r], a.Title, a.Description, resp)
         IN  /\ trace' = [trace EXCEPT
                            ![r] = @ \o <<Call("getHashtags",
                                               <<a.Title, a.Description>>)>>
                                     \o res.events
                                     \o <<Ret("getHashtags",
                                              <<res.hashtags, res.err>>)>>]
             /\ hashtags' = [hashtags EXCEPT ![r] = res.hashtags]
             /\ pc' = [pc EXCEPT ![r] = "post"]
    /\ UNCHANGED <<request, text, article, errMsg, notifyLog, env>>

\* lines 86-96: getHashtags(article.Title, article.Description)
HandlerHashtags(r, I) ==
    /\ pc[r] = "hashtags"
    /\ \E i \in 1..Len(OpenRouterAnswers(I)) :
         LET resp == OpenRouterAnswers(I)[i]
             a == article[r][1]
             res == getHashtags(env[r], a.Title, a.Description, resp)
         IN  /\ trace' = [trace EXCEPT
                            ![r] = @ \o <<Call("getHashtags",
                                               <<a.Title, a.Description>>)>>
                                     \o res.events
                                     \o <<Ret("getHashtags",
                                              <<res.hashtags, res.err>>)>>]
             /\ hashtags' = [hashtags EXCEPT ![r] = res.hashtags]
             /\ IF res.err # <<>>
                THEN /\ errMsg' =
                          [errMsg EXCEPT
                             ![r] = HashtagsFailMsg(text[r], res.err[1])]
                     /\ pc' = [pc EXCEPT ![r] = "notifyErr"]
                ELSE /\ pc' = [pc EXCEPT ![r] = "post"]
                     /\ UNCHANGED errMsg
    /\ UNCHANGED <<request, text, article, notifyLog, env>>

\* HandlerPost trying again after an error of postToTwitter
HandlerPostRetried(r, I) ==
    /\ pc[r] = "post"
    /\ \E i \in 1..Len(TwitterAnswers(I)) :
         LET resp == TwitterAnswers(I)[i]
             a == article[r][1]
             res == postToTwitter(env[r], a, text[r], hashtags[r], resp)
         IN  /\ trace' = [trace EXCEPT
                            ![r] = @ \o <<Call("postToTwitter",
                                               <<a, text[r], hashtags[r]>>)>>
                                     \o res.events
                                     \o <<Ret("postToTwitter", <<res.err>>)>>]
             /\ pc' = [pc EXCEPT
                         ![r] = IF res.err # <<>> THEN "post" ELSE "ack"]
    /\ UNCHANGED <<request, text, article, hashtags, errMsg, notifyLog, env>>

\* lines 98-107: postToTwitter(article, update.Message.Text, hashtags)
HandlerPost(r, I) ==
    /\ pc[r] = "post"
    /\ \E i \in 1..Len(TwitterAnswers(I)) :
         LET resp == TwitterAnswers(I)[i]
             a == article[r][1]
             res == postToTwitter(env[r], a, text[r], hashtags[r], resp)
         IN  /\ trace' = [trace EXCEPT
                            ![r] = @ \o <<Call("postToTwitter",
                                               <<a, text[r], hashtags[r]>>)>>
                                     \o res.events
                                     \o <<Ret("postToTwitter", <<res.err>>)>>]
             /\ IF res.err # <<>>
                THEN /\ errMsg' =
                          [errMsg EXCEPT
                             ![r] = TwitterFailMsg(text[r], res.err[1])]
                     /\ pc' = [pc EXCEPT ![r] = "notifyErr"]
                ELSE /\ pc' = [pc EXCEPT ![r] = "ack"]
                     /\ UNCHANGED errMsg
    /\ UNCHANGED <<request, text, article, hashtags, notifyLog, env>>

\* the call sendTelegramNotification(message, parseMode) of run r
Notify(r, I, message, parseMode) ==
    \E i \in 1..Len(TelegramAnswers(I)) :
        LET resp == TelegramAnswers(I)[i]
            n == sendTelegramNotification(env[r], message, parseMode, resp)
        IN  /\ trace' = [trace EXCEPT
                           ![r] = @ \o <<Call("sendTelegramNotification",
                                              <<message, parseMode>>)>>
                                    \o n.events
                                    \o <<Ret("sendTelegramNotification",
                                             <<>>)>>]
            /\ notifyLog' = [notifyLog EXCEPT ![r] = Append(@, n.log)]

\* lines 78, 90, 101: the failure message is sent as plain text
\* HandlerNotifyFailure going on only once the notification was delivered
HandlerNotifyFailureAwaitsDelivery(r, I) ==
    /\ pc[r] = "notifyErr"
    /\ \E i \in 1..Len(TelegramAnswers(I)) :
         LET resp == TelegramAnswers(I)[i]
             n == sendTelegramNotification(env[r], errMsg[r], PlainText, resp)
         IN  /\ n.log = "sent"
             /\ trace' = [trace EXCEPT
                            ![r] = @ \o <<Call("sendTelegramNotification",
                                               <<errMsg[r], PlainText>>)>>
                                     \o n.events
                                     \o <<Ret("sendTelegramNotification",
                                              <<>>)>>]
             /\ notifyLog' = [notifyLog EXCEPT ![r] = Append(@, n.log)]
    /\ pc' = [pc EXCEPT ![r] = "ackErr"]
    /\ UNCHANGED <<request, text, article, hashtags, errMsg, env>>

\* HandlerNotifyFailure sending nothing
HandlerNotifyFailureSkipped(r, I) ==
    /\ pc[r] = "notifyErr"
    /\ pc' = [pc EXCEPT ![r] = "ackErr"]
    /\ UNCHANGED <<request, text, article, hashtags, errMsg, trace,
                   notifyLog, env>>

\* HandlerNotifyFailure writing the status before it notifies
HandlerNotifyFailureAfterStatus(r, I) ==
    /\ pc[r] = "notifyErr"
    /\ \E i \in 1..Len(TelegramAnswers(I)) :
         LET resp == TelegramAnswers(I)[i]
             n == sendTelegramNotification(env[r], errMsg[r], PlainText, resp)
         IN  /\ trace' = [trace EXCEPT
                            ![r] = @ \o <<Status(StatusOK)>>
                                     \o <<Call("sendTelegramNotification",
                                               <<errMsg[r], PlainText>>)>>
                                     \o n.events
                                     \o <<Ret("sendTelegramNotification",
                                              <<>>)>>]
             /\ notifyLog' = [notifyLog EXCEPT ![r] = Append(@, n.log)]
    /\ pc' = [pc EXCEPT ![r] = "done"]
    /\ UNCHANGED <<request, text, article, hashtags, errMsg, env>>

HandlerNotifyFailure(r, I) ==
    /\ pc[r] = "notifyErr"
    /\ Notify(r, I, errMsg[r], PlainText)
    /\ pc' = [pc EXCEPT ![r] = "ackErr"]
    /\ UNCHANGED <<request, text, article, hashtags, errMsg, env>>

\* HandlerAckFailure answering 400 unless the notification was delivered
HandlerAckFailureIfNotified(r) ==
    /\ pc[r] = "ackErr"
    /\ trace' = [trace EXCEPT
                   ![r] = @ \o <<Status(IF notifyLog[r] = <<"sent">>
                                        THEN StatusOK
                                        ELSE StatusBadRequest)>>]
    /\ pc' = [pc EXCEPT ![r] = "done"]
    /\ UNCHANGED <<request, text, article, hashtags, errMsg, notifyLog, env>>

\* HandlerAckFailure reporting the failure to the transport
HandlerAckFailureSurfaced(r) ==
    /\ pc[r] = "ackErr"
    /\ trace' = [trace EXCEPT ![r] = @ \o <<Status(StatusBadRequest)>>]
    /\ pc' = [pc EXCEPT ![r] = "done"]
    /\ UNCHANGED <<request, text, article, hashtags, errMsg, notifyLog, env>>

\* lines 81-82, 93-94, 104-105: 200 after the failure was notified
HandlerAckFailure(r) ==
    /\ pc[r] = "ackErr"
    /\ trace' = [trace EXCEPT ![r] = @ \o <<Status(StatusOK)>>]
    /\ pc' = [pc EXCEPT ![r] = "done"]
    /\ UNCHANGED <<request, text, article, hashtags, errMsg, notifyLog, env>>

\* line 109: 200 after the post was created
\* HandlerAck leaving the status to be written after the notification
HandlerAckDeferred(r) ==
    /\ pc[r] = "ack"
    /\ pc' = [pc EXCEPT ![r] = "notifyOk"]
    /\ UNCHANGED <<request, text, article, hashtags, errMsg, trace,
                   notifyLog, env>>

HandlerAck(r) ==
    /\ pc[r] = "ack"
    /\ trace' = [trace EXCEPT ![r] = @ \o <<Status(StatusOK)>>]
    /\ pc' = [pc EXCEPT ![r] = "notifyOk"]
    /\ UNCHANGED <<request, text, article, hashtags, errMsg, notifyLog, env>>

\* lines 110-113: the success notification, then the handler returns
HandlerNotifySuccess(r, I) ==
    /\ pc[r] = "notifyOk"
    /\ Notify(r, I, SuccessMsg(text[r]), SuccessParseMode)
    /\ pc' = [pc EXCEPT ![r] = "done"]
    /\ UNCHANGED <<request, text, article, hashtags, errMsg, env>>

\* one step of run r of telegramHandler
telegramHandler(r, I) ==
    \/ HandlerDecode(r, I)
    \/ HandlerValidate(r)
    \/ HandlerFetch(r, I)
    \/ HandlerHashtags(r, I)
    \/ HandlerPost(r, I)
    \/ HandlerNotifyFailure(r, I)
    \/ HandlerAckFailure(r)
    \/ HandlerAck(r)
    \/ HandlerNotifySuccess(r, I)

\* ------------------------------------------------------------------------
\* Specifications
\* ------------------------------------------------------------------------

\* One request, with every body and every answer of the four services.
Next == telegramHandler(1, Wide)

Spec == Init /\ [][Next]_vars

\* One run whose handler keeps being scheduled: the server runs the handler
\* goroutine to its return, and every request it sends is answered, with
\* an error or a response, so a step of the handler that is possible is
\* eventually taken.
SpecFair == Init /\ [][Next]_vars /\ WF_vars(Next)

\* Two runs side by side, each under an environment of its own: the second
\* run shows what the first would have done had the notification gone
\* otherwise.  The environments differ in the notifier's variables only.
Pair == 1..2

InitPair ==
    /\ InitRuns
    /\ env \in [Runs -> EnvsNarrow]
    /\ \A r \in Runs \ Pair : env[r] = FullEnv

NextPair == \E r \in Pair : telegramHandler(r, Narrow)

SpecPair == InitPair /\ [][NextPair]_vars

\* Deliveries one after another in one process: the transport delivers the
\* next trigger when the handler has returned from the one before.
NextReplay ==
    \E r \in Runs :
        /\ \A q \in 1..(r - 1) : pc[q] = "done"
        /\ telegramHandler(r, Narrow)

SpecReplay == Init /\ [][NextReplay]_vars

\* Concurrent deliveries in one process: net/http runs the handler of each
\* request in a goroutine of its own, and the steps interleave freely.
NextConc == \E r \in Runs : telegramHandler(r, Narrow)

SpecConc == Init /\ [][NextConc]_vars

\* ------------------------------------------------------------------------
\* Vocabulary of the properties
\* ------------------------------------------------------------------------

Done(r) == pc[r] = "done"

\* the body of run r decoded
Decoded(r) == request[r] # <<>> /\ BodyValid(request[r][1])

\* the body of run r did not decode
Undecodable(r) == request[r] # <<>> /\ ~BodyValid(request[r][1])

\* the text of the trigger of run r, read off the request body
TriggerText(r) ==
    IF BodyMessage(request[r][1]) = <<>> THEN <<>>
    ELSE BodyMessage(request[r][1])[1]

StartsWith(t, p) == Len(t) >= Len(p) /\ \A i \in 1..Len(p) : t[i] = p[i]

UrlPrefixed(t) == StartsWith(t, HttpPrefix) \/ StartsWith(t, HttpsPrefix)

\* a decoded trigger that passes the validation
ValidTrigger(r) == Decoded(r) /\ ~UrlPrefixed(TriggerText(r))

\* the events of run r of kind op that function fn left, in order
Events(r, op, fn) ==
    SelectSeq(trace[r], LAMBDA e : e.op = op /\ e.fn = fn)

Calls(r, fn) == Len(Events(r, "call", fn))

\* the positions in trace[r] of the events of kind op of function fn
Positions(r, op, fn) ==
    {i \in 1..Len(trace[r]) : trace[r][i].op = op /\ trace[r][i].fn = fn}

\* the status codes run r wrote, in order
Statuses(r) ==
    LET w == Events(r, "status", "telegramHandler")
    IN  [i \in 1..Len(w) |-> w[i].args[1]]

Notifier == "sendTelegramNotification"

\* run r called nothing and sent nothing
NoExternalCall(r) ==
    \A i \in 1..Len(trace[r]) : trace[r][i].op = "status"

\* stage fn of run r returned an error / returned without one
StageFailed(r, fn) ==
    \E i \in Positions(r, "return", fn) :
        trace[r][i].args[Len(trace[r][i].args)] # <<>>

StageSucceeded(r, fn) ==
    \E i \in Positions(r, "return", fn) :
        trace[r][i].args[Len(trace[r][i].args)] = <<>>

\* the text of the error stage fn of run r returned
StageError(r, fn) ==
    LET e == Events(r, "return", fn)[1]
    IN  e.args[Len(e.args)][1]

\* ------------------------------------------------------------------------
\* Properties
\* ------------------------------------------------------------------------

\* C1: a trigger that decodes and is not http://- or https://-prefixed is
\* answered with status 200 and nothing else, whatever fetchArticle,
\* getHashtags, postToTwitter and sendTelegramNotification did.
C1_ValidTriggerAnswered200 ==
    \A r \in Runs :
        ValidTrigger(r) =>
            /\ \A i \in 1..Len(Statuses(r)) : Statuses(r)[i] = StatusOK
            /\ Done(r) => Statuses(r) = <<StatusOK>>

\* a run whose post failed and whose notification failed too ended with 200
C1_Witness ==
    \E r \in Runs :
        /\ Done(r) /\ ValidTrigger(r)
        /\ StageFailed(r, "postToTwitter")
        /\ notifyLog[r] = <<"failed to send">>
        /\ Statuses(r) = <<StatusOK>>

\* C2: a decoded trigger whose text starts with http:// or https:// is
\* answered with 200 and no external call is made: neither a stage nor the
\* notifier is invoked and no request is sent.
C2_UrlAnswered200NoCalls ==
    \A r \in Runs :
        (Decoded(r) /\ UrlPrefixed(TriggerText(r))) =>
            /\ NoExternalCall(r)
            /\ Done(r) => Statuses(r) = <<StatusOK>>
            /\ pc[r] = "validate" \/ pc[r] = "done"

\* an http:// trigger was dropped with 200
C2_Witness ==
    \E r \in Runs :
        /\ Done(r) /\ Decoded(r)
        /\ TriggerText(r) = TextHttp
        /\ trace[r] = <<Status(StatusOK)>>

\* C3: a body that fails JSON decoding is answered with 400 and neither the
\* notifier nor a stage is invoked; no other run writes a status other
\* than 200.
C3_UndecodableAnswered400 ==
    \A r \in Runs :
        /\ Undecodable(r) =>
              /\ Done(r)
              /\ Statuses(r) = <<StatusBadRequest>>
              /\ NoExternalCall(r)
        /\ (\E i \in 1..Len(Statuses(r)) : Statuses(r)[i] # StatusOK) =>
              Undecodable(r)

\* a malformed body was answered with 400
C3_Witness ==
    \E r \in Runs :
        /\ Done(r) /\ Undecodable(r)
        /\ trace[r] = <<Status(StatusBadRequest)>>

\* the calls of the notifier in run r, and the requests it sent
NotifyCalls(r) == Events(r, "call", Notifier)

NotifyRequests(r) == Events(r, "http", Notifier)

\* every notification of run r is plain text and names the trigger text
\* and the error of stage fn
FailureNotified(r, fn) ==
    /\ \A i \in 1..Len(NotifyCalls(r)) :
          LET c == NotifyCalls(r)[i]
          IN  /\ c.args[2] = <<>>
              /\ Contains(c.args[1], TriggerText(r))
              /\ Contains(c.args[1], StageError(r, fn))
    /\ \A i \in 1..Len(NotifyRequests(r)) :
          LET body == NotifyRequests(r)[i].args[3]
          IN  /\ "parse_mode" \notin DOMAIN body
              /\ body.text = NotifyCalls(r)[i].args[1]

\* C4: when fetchArticle fails for identifier X with error E, the notifier
\* is invoked exactly once in the run, with a plain-text message (no parse
\* mode) that contains X and the text of E, and getHashtags and
\* postToTwitter are never invoked.
C4_FetchFailureNotifiedOnce ==
    \A r \in Runs :
        StageFailed(r, "fetchArticle") =>
            /\ Calls(r, "getHashtags") = 0
            /\ Calls(r, "postToTwitter") = 0
            /\ Calls(r, Notifier) <= 1
            /\ Done(r) => Calls(r, Notifier) = 1
            /\ FailureNotified(r, "fetchArticle")

\* a 404 for identifier abc was notified in one request and the run ended
C4_Witness ==
    \E r \in Runs :
        /\ Done(r)
        /\ TriggerText(r) = TextId
        /\ StageFailed(r, "fetchArticle")
        /\ StageError(r, "fetchArticle") = FetchStatusFmt \o <<"4", "0", "4">>
        /\ Len(NotifyRequests(r)) = 1

\* C5: when resolve, generate and publish all succeed for identifier X,
\* postToTwitter is invoked exactly once and, after it returned, the notifier
\* is invoked exactly once, with a parse mode set and a message containing
\* X; no plain-text message is sent in the run.
C5_SuccessNotifiedOnceRichText ==
    \A r \in Runs :
        StageSucceeded(r, "postToTwitter") =>
            /\ StageSucceeded(r, "fetchArticle")
            /\ StageSucceeded(r, "getHashtags")
            /\ Calls(r, "postToTwitter") = 1
            /\ Calls(r, Notifier) <= 1
            /\ Done(r) => Calls(r, Notifier) = 1
            /\ \A i \in Positions(r, "call", Notifier) :
                  /\ \A j \in Positions(r, "return", "postToTwitter") : j < i
                  /\ trace[r][i].args[2] = MarkdownV2
                  /\ Contains(trace[r][i].args[1], TriggerText(r))
            /\ \A i \in 1..Len(NotifyRequests(r)) :
                  LET body == NotifyRequests(r)[i].args[3]
                  IN  /\ "parse_mode" \in DOMAIN body
                      /\ body.parse_mode = MarkdownV2
                      /\ body.text = NotifyCalls(r)[i].args[1]

\* a post was created and its success notification was delivered
C5_Witness ==
    \E r \in Runs :
        /\ Done(r)
        /\ TriggerText(r) = TextId
        /\ StageSucceeded(r, "postToTwitter")
        /\ notifyLog[r] = <<"sent">>

\* the article, the hashtags and the article URL a post of run r is made of
FetchedTitle(r) == Events(r, "return", "fetchArticle")[1].args[1][1].Title

ReturnedHashtags(r) == Events(r, "return", "getHashtags")[1].args[1]

CanonicalUrl(r) == ArticleUrlFmt \o TriggerText(r)

\* the texts of the posts run r submitted
PostTexts(r) ==
    LET h == Events(r, "http", "postToTwitter")
    IN  [i \in 1..Len(h) |-> h[i].args[3].text]

\* C6 as claimed: the post text is the title, the hashtags and the article
\* URL separated by single newlines, with no blank line between them.
C6_PostTextSingleNewlines ==
    \A r \in Runs :
        \A i \in 1..Len(PostTexts(r)) :
            PostTexts(r)[i] =
                FetchedTitle(r) \o <<"\n">> \o ReturnedHashtags(r)
                    \o <<"\n">> \o CanonicalUrl(r)

\* C6 as amended: the post text is the title, a newline, the hashtags, a
\* blank line, and the article URL made of the identifier.
C6_PostTextBlankLineBeforeUrl ==
    \A r \in Runs :
        \A i \in 1..Len(PostTexts(r)) :
            PostTexts(r)[i] =
                FetchedTitle(r) \o <<"\n">> \o ReturnedHashtags(r)
                    \o <<"\n", "\n">> \o CanonicalUrl(r)

\* a post for identifier abc was submitted
C6_Witness ==
    \E r \in Runs :
        /\ Len(PostTexts(r)) = 1
        /\ TriggerText(r) = TextId
        /\ ReturnedHashtags(r) = Hashtags1

\* C7 as claimed: postToTwitter is invoked exactly once in the run of every
\* trigger that decodes and passes the validation, whatever the earlier
\* stages did.
C7_ExactlyOnePublishPerValidTrigger ==
    \A r \in Runs :
        (Done(r) /\ ValidTrigger(r)) => Calls(r, "postToTwitter") = 1

\* C7 as amended: postToTwitter is invoked at most once in a run; in the
\* run of a valid trigger it is invoked exactly once when fetchArticle and
\* getHashtags both succeeded and not at all otherwise, and it is never
\* invoked for another trigger.
C7_AtMostOnePublish ==
    \A r \in Runs :
        /\ Calls(r, "postToTwitter") <= 1
        /\ (Done(r) /\ ValidTrigger(r)) =>
              (Calls(r, "postToTwitter") = 1
                 <=> /\ StageSucceeded(r, "fetchArticle")
                     /\ StageSucceeded(r, "getHashtags"))
        /\ (request[r] # <<>> /\ ~ValidTrigger(r)) =>
              Calls(r, "postToTwitter") = 0

\* a run whose one post attempt failed ended without another attempt
C7_Witness ==
    \E r \in Runs :
        /\ Done(r) /\ ValidTrigger(r)
        /\ StageFailed(r, "postToTwitter")
        /\ Calls(r, "postToTwitter") = 1

\* C8: when getHashtags fails after fetchArticle succeeded for identifier
\* X, the notifier receives exactly one plain-text message containing X and
\* the error, postToTwitter is never invoked, and the transport receives
\* 200.
C8_HashtagsFailureAbsorbed ==
    \A r \in Runs :
        StageFailed(r, "getHashtags") =>
            /\ StageSucceeded(r, "fetchArticle")
            /\ Calls(r, "postToTwitter") = 0
            /\ Calls(r, Notifier) <= 1
            /\ FailureNotified(r, "getHashtags")
            /\ \A i \in 1..Len(Statuses(r)) : Statuses(r)[i] = StatusOK
            /\ Done(r) =>
                  /\ Calls(r, Notifier) = 1
                  /\ Statuses(r) = <<StatusOK>>

\* a completion answered without choices was notified and answered with 200
C8_Witness ==
    \E r \in Runs :
        /\ Done(r)
        /\ StageFailed(r, "getHashtags")
        /\ StageError(r, "getHashtags") = OpenRouterEmptyErr
        /\ Len(NotifyRequests(r)) = 1
        /\ Statuses(r) = <<StatusOK>>

\* the answers postToTwitter got in run r
PostResponses(r) ==
    LET a == Events(r, "response", "postToTwitter")
    IN  [i \in 1..Len(a) |-> a[i].args[1]]

\* C9: postToTwitter returns without error only when the answer has status
\* 201; for any other status, 200 included, it returns an error, and the
\* run then sends exactly one plain-text failure notification containing
\* the identifier, sends no success notification, and answers 200.
C9_OnlyCreatedIsSuccess ==
    \A r \in Runs :
        /\ StageSucceeded(r, "postToTwitter") =>
              /\ Len(PostResponses(r)) = 1
              /\ RespErr(PostResponses(r)[1]) = <<>>
              /\ RespStatus(PostResponses(r)[1]) = StatusCreated
        /\ \A i \in 1..Len(PostResponses(r)) :
              (/\ RespErr(PostResponses(r)[i]) = <<>>
               /\ RespStatus(PostResponses(r)[i]) # StatusCreated) =>
                  StageFailed(r, "postToTwitter")
        /\ StageFailed(r, "postToTwitter") =>
              /\ Calls(r, Notifier) <= 1
              /\ FailureNotified(r, "postToTwitter")
              /\ \A i \in 1..Len(Statuses(r)) : Statuses(r)[i] = StatusOK
              /\ Done(r) =>
                    /\ Calls(r, Notifier) = 1
                    /\ Statuses(r) = <<StatusOK>>

\* an answer with status 200 ended in a failure notification and a 200
C9_Witness ==
    \E r \in Runs :
        /\ Done(r)
        /\ Len(PostResponses(r)) = 1
        /\ RespErr(PostResponses(r)[1]) = <<>>
        /\ RespStatus(PostResponses(r)[1]) = StatusOK
        /\ StageFailed(r, "postToTwitter")
        /\ Len(NotifyRequests(r)) = 1
        /\ NotifyCalls(r)[1].args[2] = <<>>

\* what run r was given: its request and what its stages returned
StageReturns(r) ==
    SelectSeq(trace[r], LAMBDA e : e.op = "return" /\ e.fn # Notifier)

Given(r) == <<request[r], StageReturns(r)>>

\* what run r did: the statuses written, the stages invoked, in order, and
\* the number of calls of the notifier
StagesInvoked(r) ==
    LET c == SelectSeq(trace[r], LAMBDA e : e.op = "call" /\ e.fn # Notifier)
    IN  [i \in 1..Len(c) |-> c[i].fn]

Observed(r) == <<Statuses(r), StagesInvoked(r), Calls(r, Notifier)>>

\* C10: the notifier surfaces no error: two finished runs given the same
\* request and the same stage results wrote the same statuses, invoked the
\* same stages and called the notifier the same number of times, whatever
\* each notification came to (variables unset, transport error, non-200
\* answer, delivery); and no run calls the notifier a second time.
C10_NotifyOutcomeUnobserved ==
    /\ \A r \in Runs : Calls(r, Notifier) <= 1
    /\ \A r1 \in Runs : \A r2 \in Runs :
          (Done(r1) /\ Done(r2) /\ Given(r1) = Given(r2)) =>
              Observed(r1) = Observed(r2)

\* the same failed post, notified in one run and not notifiable in the
\* other for want of the bot token or the chat id
C10_Witness ==
    \E r1 \in Runs : \E r2 \in Runs :
        /\ Done(r1) /\ Done(r2)
        /\ Given(r1) = Given(r2)
        /\ StageFailed(r1, "postToTwitter")
        /\ notifyLog[r1] = <<"sent">>
        /\ notifyLog[r2] = <<"not set">>
        /\ Observed(r1) = Observed(r2)

\* run r went through every stage and returned
FullSuccess(r) == Done(r) /\ StageSucceeded(r, "postToTwitter")

\* the identifier postToTwitter was called with in run r
PostedIdentifier(r) == Events(r, "call", "postToTwitter")[1].args[2]

\* C11: a trigger delivered again after a fully successful run goes through
\* the whole pipeline again: the later run calls fetchArticle, then
\* getHashtags and postToTwitter as far as the stage before succeeded, with
\* the same identifier, and calls the notifier; given the same stage
\* results it submits the same post text a second time.
C11_ReplayRunsWholePipeline ==
    \A r1 \in Runs : \A r2 \in Runs :
        (r1 < r2 /\ FullSuccess(r1) /\ Done(r2)
                 /\ request[r2] = request[r1]) =>
            /\ Calls(r2, "fetchArticle") = 1
            /\ StageSucceeded(r2, "fetchArticle") =>
                  Calls(r2, "getHashtags") = 1
            /\ StageSucceeded(r2, "getHashtags") =>
                  /\ Calls(r2, "postToTwitter") = 1
                  /\ PostedIdentifier(r2) = PostedIdentifier(r1)
            /\ Calls(r2, Notifier) = 1
            /\ Given(r2) = Given(r1) =>
                  /\ FullSuccess(r2)
                  /\ PostTexts(r2) = PostTexts(r1)

\* the same trigger was posted twice, the second time after the first run
\* had returned
C11_Witness ==
    \E r1 \in Runs : \E r2 \in Runs :
        /\ r1 < r2
        /\ FullSuccess(r1) /\ FullSuccess(r2)
        /\ request[r2] = request[r1]
        /\ Len(PostTexts(r1)) = 1
        /\ PostTexts(r2) = PostTexts(r1)

SameEvent(a, b) == a.op = b.op /\ a.fn = b.fn /\ a.args = b.args

\* the length of the longest common prefix of the traces of r1 and r2
CommonPrefix(r1, r2) ==
    LET m == IF Len(trace[r1]) < Len(trace[r2]) THEN Len(trace[r1])
             ELSE Len(trace[r2])
    IN  Cardinality({k \in 1..m :
                       \A i \in 1..k : SameEvent(trace[r1][i], trace[r2][i])})

\* Two runs given the same request do the same until an answer from
\* outside differs: their traces part only at a response, and a run that
\* has returned is not a proper prefix of the other.
SameUntilAnswersDiffer(r1, r2) ==
    LET k == CommonPrefix(r1, r2)
    IN  /\ (k < Len(trace[r1]) /\ k < Len(trace[r2])) =>
              /\ trace[r1][k + 1].op = "response"
              /\ trace[r2][k + 1].op = "response"
        /\ (k = Len(trace[r1]) /\ k < Len(trace[r2])) => ~Done(r1)

\* what the model holds of run r
Local(r) ==
    <<pc[r], request[r], text[r], article[r], hashtags[r], errMsg[r],
      trace[r], notifyLog[r]>>

\* a step changes what one run holds and leaves the environment alone
StepIsLocal ==
    /\ env' = env
    /\ \A r \in Runs : \A q \in Runs :
          (r # q /\ Local(r)' # Local(r)) => Local(q)' = Local(q)

\* C12: concurrent runs of telegramHandler are independent under every
\* interleaving: what a run writes, invokes and notifies follows from its
\* own request and the answers to its own calls, so two runs given the
\* same request do the same until their answers differ, whatever the other
\* runs are doing; and a step of one run changes nothing of another run or
\* of the environment.
C12_RunsIndependent ==
    /\ [](\A r1 \in Runs : \A r2 \in Runs :
            (request[r1] # <<>> /\ request[r1] = request[r2]) =>
                SameUntilAnswersDiffer(r1, r2))
    /\ [][StepIsLocal]_vars

\* two runs of the same trigger, interleaved, one posted and one failed to
\* fetch
C12_Witness ==
    \E r1 \in Runs : \E r2 \in Runs :
        /\ r1 # r2
        /\ request[r1] # <<>> /\ request[r1] = request[r2]
        /\ pc[r1] = "ack"
        /\ pc[r2] = "notifyErr"
        /\ StageFailed(r2, "fetchArticle")

\* the positions in trace[r] where stage fn returned without an error
Successes(r, fn) ==
    {j \in Positions(r, "return", fn) :
        trace[r][j].args[Len(trace[r][j].args)] = <<>>}

\* the positions in trace[r] where a stage was called
StageCalls(r) ==
    {i \in 1..Len(trace[r]) :
        trace[r][i].op = "call" /\ trace[r][i].fn # Notifier}

\* C13: the stages run in the order resolve, generate, publish, each after
\* the success of the one before: getHashtags is called only after
\* fetchArticle returned an article, with the title and the description of
\* that article; postToTwitter is called only after getHashtags returned a
\* string, with that article, the trigger text and that string.
C13_StagesInOrderWithResults ==
    \A r \in Runs :
        /\ \A i \in Positions(r, "call", "getHashtags") :
              \E j \in Successes(r, "fetchArticle") :
                  /\ j < i
                  /\ trace[r][i].args =
                        <<trace[r][j].args[1][1].Title,
                          trace[r][j].args[1][1].Description>>
        /\ \A i \in Positions(r, "call", "postToTwitter") :
              \E j \in Successes(r, "fetchArticle") :
                  \E k \in Successes(r, "getHashtags") :
                      /\ j < k /\ k < i
                      /\ trace[r][i].args =
                            <<trace[r][j].args[1][1], TriggerText(r),
                              trace[r][k].args[1]>>

\* postToTwitter was called with the fetched article, abc and the hashtags
C13_Witness ==
    \E r \in Runs :
        /\ Calls(r, "postToTwitter") = 1
        /\ TriggerText(r) = TextId
        /\ FetchedTitle(r) = <<"T">>
        /\ Events(r, "call", "getHashtags")[1].args = <<<<"T">>, <<"D">>>>
        /\ Events(r, "call", "postToTwitter")[1].args[3] = Hashtags2

\* C14: within a run each of fetchArticle, getHashtags and postToTwitter is
\* called at most once, and after a stage returned an error no stage is
\* called again, neither a later one nor the same one.
C14_NoRetryFailureTerminal ==
    \A r \in Runs :
        /\ Calls(r, "fetchArticle") <= 1
        /\ Calls(r, "getHashtags") <= 1
        /\ Calls(r, "postToTwitter") <= 1
        /\ \A i \in 1..Len(trace[r]) :
              (/\ trace[r][i].op = "return"
               /\ trace[r][i].fn # Notifier
               /\ trace[r][i].args[Len(trace[r][i].args)] # <<>>) =>
                  \A j \in StageCalls(r) : j < i

\* a run whose getHashtags failed returned having called two stages once
C14_Witness ==
    \E r \in Runs :
        /\ Done(r)
        /\ StageFailed(r, "getHashtags")
        /\ Calls(r, "fetchArticle") = 1
        /\ Calls(r, "getHashtags") = 1
        /\ Calls(r, "postToTwitter") = 0

\* the positions in trace[r] where a status was written
StatusPositions(r) == Positions(r, "status", "telegramHandler")

\* C15: in a run whose three stages succeeded the status 200 is written
\* before the notifier is invoked: the success notification is called only
\* once 200 stands in the trace, and nothing is written after it.
C15_SuccessAcknowledgedBeforeNotified ==
    \A r \in Runs :
        StageSucceeded(r, "postToTwitter") =>
            /\ \A i \in Positions(r, "call", Notifier) :
                  /\ StatusPositions(r) # {}
                  /\ \A j \in StatusPositions(r) :
                        j < i /\ trace[r][j] = Status(StatusOK)
            /\ pc[r] = "notifyOk" =>
                  Statuses(r) = <<StatusOK>> /\ Calls(r, Notifier) = 0

\* a successful run wrote 200 and, after that, sent its notification
C15_Witness ==
    \E r \in Runs :
        /\ Done(r)
        /\ StageSucceeded(r, "postToTwitter")
        /\ Statuses(r) = <<StatusOK>>
        /\ Len(NotifyRequests(r)) = 1
        /\ trace[r][Len(trace[r])] = Ret(Notifier, <<>>)

\* C16: in a run where a stage failed the failure notification comes
\* first: a status is written only after the call of the notifier
\* returned, and until then the run has written nothing.
C16_FailureNotifiedBeforeAcknowledged ==
    \A r \in Runs :
        (\/ StageFailed(r, "fetchArticle")
         \/ StageFailed(r, "getHashtags")
         \/ StageFailed(r, "postToTwitter")) =>
            /\ \A j \in StatusPositions(r) :
                  /\ Positions(r, "return", Notifier) # {}
                  /\ \A i \in Positions(r, "call", Notifier)
                               \cup Positions(r, "return", Notifier) : i < j
            /\ pc[r] = "ackErr" =>
                  Statuses(r) = <<>> /\ Calls(r, Notifier) = 1

\* a failed fetch was notified, the notifier returned, then 200 was written
C16_Witness ==
    \E r \in Runs :
        /\ Done(r)
        /\ StageFailed(r, "fetchArticle")
        /\ Len(NotifyRequests(r)) = 1
        /\ trace[r][Len(trace[r]) - 1] = Ret(Notifier, <<>>)
        /\ trace[r][Len(trace[r])] = Status(StatusOK)

\* the identifiers fetchArticle was called with in run r, and the URLs it
\* requested
ResolvedIdentifiers(r) ==
    LET c == Events(r, "call", "fetchArticle")
    IN  [i \in 1..Len(c) |-> c[i].args[1]]

ResolverUrls(r) ==
    LET h == Events(r, "http", "fetchArticle")
    IN  [i \in 1..Len(h) |-> h[i].args[2]]

\* run r is past the validation and, if it passed, past fetchArticle
Validated(r) == pc[r] # "recv" /\ pc[r] # "validate" /\ pc[r] # "fetch"

\* C17: the validation drops only a text that begins with exactly http://
\* or https://; every other decoded trigger (no text, a blank, a URL in
\* another case or led by a blank, another scheme) goes on to fetchArticle,
\* which is called exactly once with the trigger text unchanged.
C17_OnlyExactPrefixesRejected ==
    \A r \in Runs :
        /\ (ValidTrigger(r) /\ Validated(r)) =>
              /\ ResolvedIdentifiers(r) = <<TriggerText(r)>>
              /\ ResolverUrls(r) = <<NotionUrlFmt \o TriggerText(r)>>
        /\ (Decoded(r) /\ Validated(r) /\ Calls(r, "fetchArticle") = 0) =>
              \/ SubSeq(TriggerText(r), 1, Len(HttpPrefix)) = HttpPrefix
              \/ SubSeq(TriggerText(r), 1, Len(HttpsPrefix)) = HttpsPrefix

\* a URL led by a blank was handed to fetchArticle as it came
C17_Witness ==
    \E r \in Runs :
        /\ Done(r) /\ Decoded(r)
        /\ TriggerText(r) = TextLedBySpace
        /\ ResolvedIdentifiers(r) = <<TextLedBySpace>>

\* a credential of postToTwitter is unset in the environment of run r
TwitterCredentialUnset(r) ==
    \/ env[r]["TWITTER_CONSUMER_KEY"] = <<>>
    \/ env[r]["TWITTER_CONSUMER_SECRET"] = <<>>
    \/ env[r]["TWITTER_ACCESS_TOKEN"] = <<>>
    \/ env[r]["TWITTER_ACCESS_SECRET"] = <<>>

OpenRouterKeyUnset(r) == env[r]["OPENROUTER_API_KEY"] = <<>>

\* run r sent one plain-text notification of the failure of stage fn and
\* then wrote 200
AbsorbedFailure(r, fn) ==
    /\ FailureNotified(r, fn)
    /\ Calls(r, Notifier) <= 1
    /\ Done(r) => Calls(r, Notifier) = 1 /\ Statuses(r) = <<StatusOK>>

\* C18: a missing credential is an error of the call, not of the start: a
\* run under an environment with one of the four Twitter credentials unset
\* still calls fetchArticle and getHashtags, and postToTwitter, once called,
\* returns the credentials error without sending a request; with the
\* OpenRouter key unset getHashtags, called after fetchArticle succeeded,
\* returns the key error without sending a request; either error ends in
\* one failure notification and 200.
C18_MissingCredentialFailsAtCall ==
    \A r \in Runs :
        /\ TwitterCredentialUnset(r) =>
              /\ Events(r, "http", "postToTwitter") = <<>>
              /\ (pc[r] = "post" \/ Calls(r, "postToTwitter") = 1) =>
                    /\ StageSucceeded(r, "fetchArticle")
                    /\ StageSucceeded(r, "getHashtags")
              /\ Calls(r, "postToTwitter") = 1 =>
                    /\ StageFailed(r, "postToTwitter")
                    /\ StageError(r, "postToTwitter") = TwitterCredsErr
                    /\ AbsorbedFailure(r, "postToTwitter")
        /\ OpenRouterKeyUnset(r) =>
              /\ Events(r, "http", "getHashtags") = <<>>
              /\ Calls(r, "postToTwitter") = 0
              /\ Calls(r, "getHashtags") = 1 =>
                    /\ StageSucceeded(r, "fetchArticle")
                    /\ StageFailed(r, "getHashtags")
                    /\ StageError(r, "getHashtags") = OpenRouterKeyErr
                    /\ AbsorbedFailure(r, "getHashtags")

\* without the access secret a run fetched the article, got the hashtags,
\* failed in postToTwitter before any request, notified and answered 200
C18_Witness ==
    \E r \in Runs :
        /\ Done(r)
        /\ env[r]["TWITTER_ACCESS_SECRET"] = <<>>
        /\ Len(Events(r, "http", "fetchArticle")) = 1
        /\ Len(Events(r, "http", "getHashtags")) = 1
        /\ Calls(r, "postToTwitter") = 1
        /\ Events(r, "http", "postToTwitter") = <<>>
        /\ notifyLog[r] = <<"sent">>
        /\ Statuses(r) = <<StatusOK>>

\* the parse modes the notifier was called with in run r
ParseModes(r) ==
    [i \in 1..Len(NotifyCalls(r)) |-> NotifyCalls(r)[i].args[2]]

\* C19: a run of a decoded trigger that is not URL-prefixed invokes the
\* notifier exactly once by the time it ends, and never more: with no parse
\* mode when a stage failed, with MarkdownV2 when all three succeeded; a run
\* of an undecodable or URL-prefixed trigger never invokes it.
C19_NotifiedExactlyOnce ==
    \A r \in Runs :
        /\ Calls(r, Notifier) <= 1
        /\ (Done(r) /\ ValidTrigger(r)) =>
              /\ Calls(r, Notifier) = 1
              /\ ParseModes(r) = <<PlainText>>
                    <=> \/ StageFailed(r, "fetchArticle")
                        \/ StageFailed(r, "getHashtags")
                        \/ StageFailed(r, "postToTwitter")
              /\ ParseModes(r) = <<MarkdownV2>>
                    <=> StageSucceeded(r, "postToTwitter")
        /\ (request[r] # <<>> /\ ~ValidTrigger(r)) =>
              Calls(r, Notifier) = 0

\* a run whose post failed ended with one plain-text notification
C19_Witness ==
    \E r \in Runs :
        /\ Done(r) /\ ValidTrigger(r)
        /\ StageFailed(r, "postToTwitter")
        /\ ParseModes(r) = <<PlainText>>

\* the stages of the pipeline, in the order of telegramHandler
Pipeline == <<"fetchArticle", "getHashtags", "postToTwitter">>

\* the stages run r invoked are the first n of the pipeline, each returned,
\* every one but the last without an error, and the run stopped short of
\* the third only on an error; a run that failed the decoding or the
\* validation invoked none
CompletedOrShortCircuited(r) ==
    LET n == Len(StagesInvoked(r))
        ret == StageReturns(r)
    IN  /\ n <= Len(Pipeline)
        /\ StagesInvoked(r) = SubSeq(Pipeline, 1, n)
        /\ Len(ret) = n
        /\ \A i \in 1..(n - 1) : ret[i].args[Len(ret[i].args)] = <<>>
        /\ IF ValidTrigger(r)
           THEN /\ n >= 1
                /\ n = Len(Pipeline) \/ ret[n].args[Len(ret[n].args)] # <<>>
           ELSE n = 0

\* run r returned having written one status, 200 or 400
Acknowledged(r) ==
    /\ Done(r)
    /\ Statuses(r) = <<StatusOK>> \/ Statuses(r) = <<StatusBadRequest>>
    /\ CompletedOrShortCircuited(r)

\* C20: when every external call returns, every run ends with exactly one
\* status: a request that was received leads to the handler having
\* returned with one status written, 200 or 400, after all three stages or
\* after the first one that failed; and no run ever writes a second status.
C20_TerminatesWithOneStatus ==
    /\ [](\A r \in Runs : Len(Statuses(r)) <= 1)
    /\ \A r \in Runs : (request[r] # <<>>) ~> [](Acknowledged(r))

\* a run stopped at a failed getHashtags returned with one status, 200
C20_Witness ==
    \E r \in Runs :
        /\ Acknowledged(r)
        /\ StagesInvoked(r) = <<"fetchArticle", "getHashtags">>
        /\ StageFailed(r, "getHashtags")
        /\ Statuses(r) = <<StatusOK>>

====
